---- MODULE Spec2Model ----
(***************************************************************************)
(* Model of cepdne: the web control panel (app.py) that starts background  *)
(* synchronisation runs, and the run itself (update_dne.py): download,     *)
(* decode to a TSV batch, load into the staging table and reconcile the    *)
(* target table by set difference inside one database transaction.         *)
(*                                                                         *)
(* A slot i holds one POST /run request together with the thread it may    *)
(* start.  Every `with status_lock:` block is one atomic action.  The      *)
(* database is MySQL/InnoDB as the code configures it: DDL statements      *)
(* (CREATE, TRUNCATE) commit at once, DML statements (LOAD DATA, INSERT,   *)
(* DELETE) belong to the session's open transaction and reach the          *)
(* committed tables at conn.commit(); a connection closed without commit   *)
(* is rolled back.  Sessions that write the same tables are serialised by  *)
(* the server's locks, modelled by the single open transaction tx.         *)
(***************************************************************************)
EXTENDS Integers, Sequences, FiniteSets, TLC

\* ------------------------------------------------------------------ bounds
MaxRequests == 2
MaxRecords == 2
MaxLines == 2

\* ------------------------------------------------------------------ data
\* The server's request slots: a slot holds one POST /run request and the
\* thread it starts, and is free again when that request or thread has ended.
\* Two slots: up to two requests and runs overlap; MaxRequests bounds how many
\* requests arrive in all.
Reqs == {1, 2}

Ceps == {"01001000", "20040002"}

AddrA == [street |-> "Praca da Se", city |-> "Sao Paulo", region |-> "SP",
          neighborhood |-> "Se"]
AddrB == [street |-> "Rua Um", city |-> "Rio de Janeiro", region |-> "RJ",
          neighborhood |-> "Centro"]
Addrs == {AddrA, AddrB}

DneRecord(c, a) ==
    [cep |-> c, street |-> a.street, city |-> a.city, region |-> a.region,
     neighborhood |-> a.neighborhood]

Rows == {DneRecord(c, a) : c \in Ceps, a \in Addrs}

Keys(table) == {r.cep : r \in table}

\* The target table is keyed uniquely by cep; the staging table is created
\* LIKE it and so carries the same key.
UniqueKey(table) == \A r, s \in table : r.cep = s.cep => r = s

Tables == {t \in SUBSET Rows : UniqueKey(t)}

\* The TSV batches a run can write: the decoded records of the snapshot, in
\* order, duplicates allowed.
Snapshots == UNION {[1..k -> Rows] : k \in 0..MaxRecords}

None == "None"

\* --------------------------------------------- update_dne.py: decoding a line
\* A str is a sequence of one-character strings.  Whitespace is what
\* str.strip() and str.split() take for it; of it a line of the registry's
\* files can hold the blank and the tab.
Whitespace == {" ", "\t"}

\* value[from:to]: the slice ends where the string ends.
Slice(value, from, to) ==
    SubSeq(value, from + 1, IF to < Len(value) THEN to ELSE Len(value))

RECURSIVE LStrip(_)
LStrip(value) ==
    IF value # <<>> /\ Head(value) \in Whitespace
      THEN LStrip(Tail(value))
      ELSE value

RECURSIVE RStrip(_)
RStrip(value) ==
    IF value # <<>> /\ value[Len(value)] \in Whitespace
      THEN RStrip(SubSeq(value, 1, Len(value) - 1))
      ELSE value

\* value.strip()
Strip(value) == RStrip(LStrip(value))

\* How many characters the first word of a str that begins with one has.
WordLen(value) ==
    IF \E n \in 1..Len(value) : value[n] \in Whitespace
      THEN (CHOOSE n \in 1..Len(value) :
              /\ value[n] \in Whitespace
              /\ \A m \in 1..(n - 1) : value[m] \notin Whitespace) - 1
      ELSE Len(value)

\* value.split(): the maximal runs of characters that are no whitespace.
RECURSIVE Split(_)
Split(value) ==
    LET rest == LStrip(value)
    IN IF rest = <<>>
         THEN <<>>
         ELSE <<SubSeq(rest, 1, WordLen(rest))>>
              \o Split(SubSeq(rest, WordLen(rest) + 1, Len(rest)))

\* sep.join(parts)
RECURSIVE Join(_, _)
Join(sep, parts) ==
    IF parts = <<>> THEN <<>>
    ELSE IF Len(parts) = 1 THEN parts[1]
    ELSE parts[1] \o sep \o Join(sep, Tail(parts))

\* Variant: trims the ends and leaves the inside as it is.
normalize_spaces_trims(value) == Strip(value)

\* " ".join(value.split())
normalize_spaces(value) == Join(<<" ">>, Split(value))

IsNonEmpty(part) == part # <<>>

\* The result of parse_logradouro_line is <<>> for None and <<record>> for a
\* DneRecord.
NoRecord == <<>>

\* Variant: the test of the sentinel character is missing.
RejectsEmptyOnly(line) == line = <<>>

\* The conditions under which parse_logradouro_line returns None before it
\* reads a field.
RejectsLine(line) == line = <<>> \/ line[1] # "D"

parse_logradouro_line(line) ==
    IF RejectsLine(line)
      THEN NoRecord
      ELSE
        LET region == Strip(Slice(line, 1, 3))
            city == normalize_spaces(Slice(line, 17, 89))
            neighborhood_initial == normalize_spaces(Slice(line, 102, 174))
            neighborhood_final == normalize_spaces(Slice(line, 187, 259))
            tipo_logradouro == normalize_spaces(Slice(line, 259, 285))
            preposicao == normalize_spaces(Slice(line, 285, 288))
            titulo == normalize_spaces(Slice(line, 288, 360))
            nome_logradouro == normalize_spaces(Slice(line, 374, 446))
            cep == Strip(Slice(line, 518, 526))
            neighborhood ==
                IF neighborhood_initial # <<>>
                  THEN neighborhood_initial
                  ELSE neighborhood_final
            street_parts ==
                <<tipo_logradouro, preposicao, titulo, nome_logradouro>>
            street ==
                normalize_spaces(
                    Join(<<" ">>, SelectSeq(street_parts, IsNonEmpty)))
        IN IF cep = <<>>
             THEN NoRecord
             ELSE <<[cep |-> cep, street |-> street, city |-> city,
                     region |-> region, neighborhood |-> neighborhood]>>

\* ------------------------------------------- the lines a registry file holds
\* A str of width blanks.
Blank(width) == [n \in 1..width |-> " "]

\* The line with text written over it from offset at on (offsets count
\* from 0, as the slices do).
Put(line, at, text) ==
    SubSeq(line, 1, at) \o text \o SubSeq(line, at + Len(text) + 1, Len(line))

\* What the fields of a line can hold: nothing, a value, a value with blanks
\* or a tab before it and with two blanks or a tab inside.
RegionFields == {<<"S", "P">>, <<" ", "R">>}
CityFields == {<<"R", "i", "o">>, <<" ", "S", "a", "o", " ", " ", "P">>}
InitialFields == {<<>>, <<"S", "e">>}
FinalFields == {<<>>, <<"\t", "V", "i", "l", "a", "\t", "A">>}
TipoFields == {<<>>, <<"R", "u", "a">>}
PreposicaoFields == {<<>>, <<"d", "a">>}
TituloFields == {<<>>, <<"D", "r">>}
NomeFields == {<<"U", "m">>, <<"A", " ", " ", "B">>}
CepFields ==
    {<<>>,
     <<"0", "1", "0", "0", "1", "0", "0", "0">>,
     <<"2", "0", "0", "4">>,
     <<"0", "1", " ", " ", "1", "0", "0", "0">>}
Sentinels == {"D", "S"}

\* A line of the file's full width with the fields at their offsets.
FullLine(first, region, city, initial, final, tipo, prep, titulo, nome, cep) ==
    Put(Put(Put(Put(Put(Put(Put(Put(Put(Put(Blank(530),
        0, <<first>>), 1, region), 17, city), 102, initial), 187, final),
        259, tipo), 285, prep), 288, titulo), 374, nome), 518, cep)

FullLines ==
    {FullLine(first, region, city, initial, final, tipo, prep, titulo, nome, cep) :
       first \in Sentinels, region \in RegionFields, city \in CityFields,
       initial \in InitialFields, final \in FinalFields, tipo \in TipoFields,
       prep \in PreposicaoFields, titulo \in TituloFields,
       nome \in NomeFields, cep \in CepFields}

\* Lines end where the file's writer ended them: a line may be empty, stop
\* inside the postcode field or before it, or have its full width.
LineLengths == {0, 400, 522, 530}

Lines == {Slice(line, 0, width) : line \in FullLines, width \in LineLengths}

\* Three lines for the files of an archive: two address lines, the second
\* with whitespace to normalize and a double quote in the street's name, and
\* a line of another record type.
LineTexts ==
    [A |-> FullLine("D", <<"S", "P">>, <<"R", "i", "o">>, <<"S", "e">>, <<>>,
                    <<"R", "u", "a">>, <<>>, <<>>, <<"U", "m">>,
                    <<"0", "1", "0", "0", "1", "0", "0", "0">>),
     B |-> FullLine("D", <<" ", "R">>, <<" ", "S", "a", "o", " ", " ", "P">>,
                    <<>>, <<"\t", "V", "i", "l", "a", "\t", "A">>, <<>>,
                    <<"d", "a">>, <<"D", "r">>, <<"D", "\"", "A">>,
                    <<"2", "0", "0", "4", "0", "0", "0", "2">>),
     R |-> FullLine("S", <<"S", "P">>, <<"R", "i", "o">>, <<>>, <<>>, <<>>,
                    <<>>, <<>>, <<"U", "m">>,
                    <<"0", "1", "0", "0", "1", "0", "0", "0">>)]

LineNames == {"A", "B", "R"}

\* A file is a sequence of at most MaxLines lines, given by their names.
TxtFiles == UNION {[1..k -> LineNames] : k \in 0..MaxLines}

\* The names of the archive's *_LOGRADOUROS.TXT entries, in namelist() order.
TxtNames == <<"AC_LOGRADOUROS.TXT", "SP_LOGRADOUROS.TXT">>

\* What the inner archive can hold: no such entry, one or two.
Archives == UNION {[1..k -> TxtFiles] : k \in 0..Len(TxtNames)}

\* ------------------------------------- csv.writer(handle, delimiter="\t")
\* The dialect is the default one but for the delimiter: quotechar '"',
\* QUOTE_MINIMAL, doublequote, lineterminator "\r\n".
NeedsQuotes(field) ==
    \E n \in 1..Len(field) : field[n] \in {"\t", "\"", "\r", "\n"}

RECURSIVE DoubleQuotes(_)
DoubleQuotes(field) ==
    IF field = <<>> THEN <<>>
    ELSE (IF Head(field) = "\"" THEN <<"\"", "\"">> ELSE <<Head(field)>>)
         \o DoubleQuotes(Tail(field))

CsvField(field) ==
    IF NeedsQuotes(field)
      THEN <<"\"">> \o DoubleQuotes(field) \o <<"\"">>
      ELSE field

\* writer.writerow(row): the text added to the file, which is opened with
\* newline="" and so receives the line terminator as it is.
writerow(row) ==
    Join(<<"\t">>, [n \in 1..Len(row) |-> CsvField(row[n])]) \o <<"\r", "\n">>

\* The row run_sync writes for a record.
RowOf(rec) == <<rec.cep, rec.street, rec.city, rec.region, rec.neighborhood>>

\* ------------------------- LOAD DATA ... FIELDS/LINES TERMINATED BY
\* Where text has its first sep, Len(text) + 1 when it has none.
Find(text, sep) ==
    IF \E n \in 1..Len(text) : text[n] = sep
      THEN CHOOSE n \in 1..Len(text) :
             text[n] = sep /\ \A m \in 1..(n - 1) : text[m] # sep
      ELSE Len(text) + 1

\* LINES TERMINATED BY '\n': the file's lines, the terminator taken off.
RECURSIVE LoadLines(_)
LoadLines(text) ==
    IF text = <<>> THEN <<>>
    ELSE <<SubSeq(text, 1, Find(text, "\n") - 1)>>
         \o LoadLines(SubSeq(text, Find(text, "\n") + 1, Len(text)))

\* FIELDS TERMINATED BY '\t', not enclosed: a line's fields.
RECURSIVE LoadFields(_)
LoadFields(text) ==
    IF Find(text, "\t") > Len(text) THEN <<text>>
    ELSE <<SubSeq(text, 1, Find(text, "\t") - 1)>>
         \o LoadFields(SubSeq(text, Find(text, "\t") + 1, Len(text)))

\* (cep, street, city, region, neighborhood): the columns take the line's
\* fields in order; a missing field leaves its column empty and fields past
\* the fifth are dropped.
Column(fields, k) == IF k <= Len(fields) THEN fields[k] ELSE <<>>

LoadRow(text) ==
    LET fields == LoadFields(text)
    IN [cep |-> Column(fields, 1), street |-> Column(fields, 2),
        city |-> Column(fields, 3), region |-> Column(fields, 4),
        neighborhood |-> Column(fields, 5)]

\* The rows LOAD DATA reads from the file, in file order.
LoadData(text) ==
    [n \in 1..Len(LoadLines(text)) |-> LoadRow(LoadLines(text)[n])]

VARIABLES
    status,      \* app.status: running, last_run, last_result, last_error
    arrived,     \* how many POST /run requests the server has received
    pc,          \* where each request / thread stands
    http,        \* the last response a POST /run handler sent
    fetch,       \* what download_and_extract found, per thread
    err,         \* the exception each thread's run raised
    inserted,    \* cursor.rowcount after the INSERT, -1 before
    deleted,     \* cursor.rowcount after the DELETE, -1 before
    stage,       \* committed rows of the staging table
    target,      \* committed rows of the target table
    tx,          \* the open transaction: owner (0: none), its view of both
                 \* tables, the target as it was when it began, and the
                 \* postcodes of the batch it loaded (snap)
    synced,      \* history: the staging rows of the last run that committed
                 \* and closed its connection
    cli,         \* update_dne.py run from the command line, main() ->
                 \* run_sync(args): a record of
                 \*   keep_temp     args.keep_temp
                 \*   archive       the *_LOGRADOUROS.TXT files of the published
                 \*                 archive: a sequence of files, each a
                 \*                 sequence of lines
                 \*   pc            where run_sync stands
                 \*   tmp           the TemporaryDirectory: whether it exists,
                 \*                 and the names in it
                 \*   retained      the names in ./dne_tmp
                 \*   at            <<file, line>>: the next line the loops read
                 \*   line          the line read last
                 \*   record        what parse_logradouro_line returned for it
                 \*   tsv           the text written to dne_logradouros.tsv
                 \*   record_count
                 \*   staged        the rows LOAD DATA put in the staging table
    lk           \* app.py with status_lock taken and released step by step:
                 \*   holder        the slot whose thread holds status_lock,
                 \*                 0 when it is free
                 \*   pc            where each slot's handler or thread stands

webVars == <<status, arrived, pc, http, fetch, err, inserted, deleted,
             stage, target, tx, synced>>

vars == <<webVars, cli, lk>>

\* The temporary directory, not yet made or removed again, and with files.
Removed == [exists |-> FALSE, names |-> {}]

TempDir(names) == [exists |-> TRUE, names |-> names]

\* The command line program is not run.
CliOff == [pc |-> "off"]

\* The step-by-step view of status_lock is not taken.
LockOff == [holder |-> 0]

NoTx ==
    [owner |-> 0, stg |-> {}, tgt |-> {}, before |-> {}, snap |-> {}]

\* last_run is a timestamp; 0 stands for None, k for the k-th clock reading.
StatusInit ==
    [running |-> FALSE, last_run |-> 0, last_result |-> None, last_error |-> None]

\* The tables start as earlier runs can have left them: any target, and a
\* staging table that is empty (absent, or truncated by a failed run) or
\* holds the rows of the run that produced the target.
Init ==
    /\ status = StatusInit
    /\ arrived = 0
    /\ pc = [i \in Reqs |-> "idle"]
    /\ http = None
    /\ fetch = [i \in Reqs |-> None]
    /\ err = [i \in Reqs |-> None]
    /\ inserted = [i \in Reqs |-> -1]
    /\ deleted = [i \in Reqs |-> -1]
    /\ target \in Tables
    /\ stage \in {{}, target}
    /\ tx = NoTx
    /\ synced = [valid |-> FALSE, rows |-> {}]
    /\ cli = CliOff
    /\ lk = LockOff

\* ------------------------------------------------------------ app.py: run()
\* Variant: a check that never sees a run in progress.
NeverRunning == FALSE

\* The check the handler makes under status_lock.
AlreadyRunning == status.running

\* POST /run, first half: `with status_lock: if status["running"]: return 409`.
\* The lock is released when the block ends, before the thread is created.
\* Requests are numbered in their order of arrival.
RunCheck(i) ==
    /\ pc[i] = "idle"
    /\ arrived < MaxRequests
    /\ arrived' = arrived + 1
    /\ IF AlreadyRunning
         THEN /\ pc' = pc
              /\ http' = "409 running"
         ELSE /\ pc' = [pc EXCEPT ![i] = "passed"]
              /\ http' = http
    /\ UNCHANGED <<status, fetch, err, inserted, deleted,
                   stage, target, tx, synced>>
    /\ UNCHANGED <<cli, lk>>

\* POST /run, second half: parse_args_from_env, Thread(...).start(), and the
\* "started" response.
ThreadStart(i) ==
    /\ pc[i] = "passed"
    /\ pc' = [pc EXCEPT ![i] = "spawned"]
    /\ http' = "200 started"
    /\ UNCHANGED <<status, arrived, fetch, err, inserted, deleted,
                   stage, target, tx, synced>>
    /\ UNCHANGED <<cli, lk>>

\* ------------------------------------------------------ app.py: run_update()
\* build_logger() runs before the try block: if it raises (the log directory
\* or file cannot be created) the thread ends without touching status.
BuildLoggerFails(i) ==
    /\ pc[i] = "spawned"
    /\ pc' = [pc EXCEPT ![i] = "idle"]
    /\ UNCHANGED <<status, arrived, http, fetch, err, inserted, deleted,
                   stage, target, tx, synced>>
    /\ UNCHANGED <<cli, lk>>

StatusAtStart(s) ==
    [running |-> TRUE, last_run |-> s.last_run + 1, last_result |-> None,
     last_error |-> None]

\* The first `with status_lock:` block of run_update.
StartRun(i) ==
    /\ pc[i] = "spawned"
    /\ status' = StatusAtStart(status)
    /\ pc' = [pc EXCEPT ![i] = "fetch"]
    /\ UNCHANGED <<arrived, http, fetch, err, inserted, deleted,
                   stage, target, tx, synced>>
    /\ UNCHANGED <<cli, lk>>

\* run_sync returned: last_result = "success" (last_error is not written).
RecordSuccess(i) ==
    /\ pc[i] = "success"
    /\ status' = [status EXCEPT !.last_result = "success"]
    /\ pc' = [pc EXCEPT ![i] = "finally"]
    /\ fetch' = [fetch EXCEPT ![i] = None]
    /\ UNCHANGED <<arrived, http, err, inserted, deleted,
                   stage, target, tx, synced>>
    /\ UNCHANGED <<cli, lk>>

\* `except Exception as exc`: last_result = "failed", last_error = str(exc).
RecordFailure(i) ==
    /\ pc[i] = "except"
    /\ status' = [status EXCEPT !.last_result = "failed", !.last_error = err[i]]
    /\ pc' = [pc EXCEPT ![i] = "finally"]
    /\ fetch' = [fetch EXCEPT ![i] = None]
    /\ err' = [err EXCEPT ![i] = None]
    /\ UNCHANGED <<arrived, http, inserted, deleted,
                   stage, target, tx, synced>>
    /\ UNCHANGED <<cli, lk>>

\* Variant: a finally block that leaves status as it is.
StatusAtEndKeeps(s) == s

StatusAtEnd(s) == [s EXCEPT !.running = FALSE]

\* `finally: with status_lock: status["running"] = False`.
Finally(i) ==
    /\ pc[i] = "finally"
    /\ status' = StatusAtEnd(status)
    /\ pc' = [pc EXCEPT ![i] = "idle"]
    /\ UNCHANGED <<arrived, http, fetch, err, inserted, deleted,
                   stage, target, tx, synced>>
    /\ UNCHANGED <<cli, lk>>

\* ------------------------------------------------- update_dne.py: run_sync()
\* What the published archive can be: the download fails, the outer archive
\* has no DNE_GU_*.zip entry, the inner archive has no *_LOGRADOUROS.TXT
\* entry, or it has some.
FetchOutcomes == {"neterr", "noinner", "nofile", "ok"}

\* An exception leaves run_sync and run_update's except block is next.
Raise(i, msg) ==
    /\ pc' = [pc EXCEPT ![i] = "except"]
    /\ err' = [err EXCEPT ![i] = msg]

\* download_and_extract: urlretrieve raises on a network error; next() over
\* the outer archive's names raises StopIteration when no DNE_GU_*.zip entry
\* exists; the loop over the inner archive's names raises nothing and returns
\* the list of extracted files, empty when none matches.
DownloadAndExtract(i) ==
    /\ pc[i] = "fetch"
    /\ \E o \in FetchOutcomes :
         /\ fetch' = [fetch EXCEPT ![i] = o]
         /\ IF o \in {"neterr", "noinner"}
              THEN Raise(i, o)
              ELSE /\ pc' = [pc EXCEPT ![i] = "csv"]
                   /\ UNCHANGED err
    /\ UNCHANGED <<status, arrived, http, inserted, deleted, stage,
                   target, tx, synced>>
    /\ UNCHANGED <<cli, lk>>

\* The TSV batches the extracted files can give: one row per decoded record,
\* in order.  No file gives the empty batch; a file may also hold no address
\* record at all.
Batches(i) == IF fetch[i] = "nofile" THEN {<<>>} ELSE Snapshots

\* The loop that decodes every extracted file into dne_logradouros.tsv.  The
\* file is private to the thread until LOAD DATA reads it, and what the
\* published archive held is drawn there.
WriteCsv(i) ==
    /\ pc[i] = "csv"
    /\ pc' = [pc EXCEPT ![i] = "connect"]
    /\ UNCHANGED <<status, arrived, http, fetch, err, inserted, deleted,
                   stage, target, tx, synced>>
    /\ UNCHANGED <<cli, lk>>

\* ---------------------------------------------- update_dne.py: sync_database()
\* Variant: autocommit on, every statement's rows are committed at once.
TargetAfterCloseKeeps(i) == IF tx.owner = i THEN tx.tgt ELSE target

\* What the committed target table holds once a connection that did not
\* commit is closed: autocommit is off, so the server discards the work.
TargetAfterClose(i) == target

\* A statement (or connect, or commit) raises: the `with` blocks close the
\* cursor and the connection, the open transaction is rolled back, and the
\* exception leaves run_sync.  msg stands for str(exc): "connect", "staging"
\* for an error of CREATE, TRUNCATE or LOAD DATA, "reconcile" for an error of
\* INSERT, DELETE or commit.
DbFail(i, msg) ==
    /\ Raise(i, msg)
    /\ tx' = IF tx.owner = i THEN NoTx ELSE tx
    /\ target' = TargetAfterClose(i)
    /\ inserted' = [inserted EXCEPT ![i] = -1]
    /\ deleted' = [deleted EXCEPT ![i] = -1]
    /\ UNCHANGED <<status, arrived, http, fetch, stage, synced>>
    /\ UNCHANGED <<cli, lk>>

DbStep(i, next) ==
    /\ pc' = [pc EXCEPT ![i] = next]
    /\ UNCHANGED <<status, arrived, http, fetch, err>>
    /\ UNCHANGED <<cli, lk>>

\* mysql_connect(args)
Connect(i) ==
    /\ pc[i] = "connect"
    /\ \/ /\ DbStep(i, "create")
          /\ UNCHANGED <<inserted, deleted, stage, target, tx, synced>>
       \/ DbFail(i, "connect")

\* CREATE TABLE IF NOT EXISTS <table>_stage LIKE <table>
CreateStage(i) ==
    /\ pc[i] = "create"
    /\ \/ /\ tx.owner = 0
          /\ DbStep(i, "truncate")
          /\ UNCHANGED <<inserted, deleted, stage, target, tx, synced>>
       \/ DbFail(i, "staging")

\* TRUNCATE TABLE <table>_stage
TruncateStage(i) ==
    /\ pc[i] = "truncate"
    /\ \/ /\ tx.owner = 0
          /\ DbStep(i, "load")
          /\ stage' = {}
          /\ UNCHANGED <<inserted, deleted, target, tx, synced>>
       \/ DbFail(i, "staging")

\* LOAD DATA LOCAL INFILE into a table with a unique key: with LOCAL a row
\* whose key is already present is skipped, so the first row of a key wins.
RECURSIVE BulkLoad(_, _)
BulkLoad(table, batch) ==
    IF batch = <<>>
      THEN table
      ELSE LET r == Head(batch)
           IN BulkLoad(IF r.cep \in Keys(table) THEN table ELSE table \cup {r},
                       Tail(batch))

\* The postcodes of a batch; a postcode may be on several of its lines.
BatchKeys(batch) == {batch[n].cep : n \in DOMAIN batch}

LoadStage(i) ==
    /\ pc[i] = "load"
    /\ \/ /\ tx.owner = 0
          /\ DbStep(i, "insert")
          /\ \E batch \in Batches(i) :
               tx' = [owner |-> i, stg |-> BulkLoad(stage, batch),
                      tgt |-> target, before |-> target,
                      snap |-> BatchKeys(batch)]
          /\ UNCHANGED <<inserted, deleted, stage, target, synced>>
       \/ DbFail(i, "staging")

\* SELECT stage.* FROM stage LEFT JOIN target ON target.cep = stage.cep
\* WHERE target.cep IS NULL
NewRows(stg, tgt) == {r \in stg : r.cep \notin Keys(tgt)}

\* Variant: an upsert, staging rows replace target rows of the same key.
AfterInsertReplace(tgt, stg) ==
    {t \in tgt : t.cep \notin Keys(stg)} \cup stg

\* INSERT INTO target ... SELECT: the target with the selected rows added.
AfterInsert(tgt, stg) == tgt \cup NewRows(stg, tgt)

InsertNew(i) ==
    /\ pc[i] = "insert"
    /\ \/ /\ UniqueKey(AfterInsert(tx.tgt, tx.stg))
          /\ DbStep(i, "delete")
          /\ tx' = [tx EXCEPT !.tgt = AfterInsert(tx.tgt, tx.stg)]
          /\ inserted' = [inserted EXCEPT ![i] = Cardinality(NewRows(tx.stg, tx.tgt))]
          /\ UNCHANGED <<deleted, stage, target, synced>>
       \/ DbFail(i, "reconcile")

\* Variant: a join that matches no row.
StaleRowsNone(tgt, stg) == {}

\* Variant: WHERE stage.cep IS NOT NULL.
StaleRowsInverted(tgt, stg) == {t \in tgt : t.cep \in Keys(stg)}

\* target LEFT JOIN stage ON stage.cep = target.cep WHERE stage.cep IS NULL
StaleRows(tgt, stg) == {t \in tgt : t.cep \notin Keys(stg)}

\* DELETE target FROM target LEFT JOIN stage ... WHERE stage.cep IS NULL
DeleteStale(i) ==
    /\ pc[i] = "delete"
    /\ \/ /\ DbStep(i, "commit")
          /\ tx' = [tx EXCEPT !.tgt = tx.tgt \ StaleRows(tx.tgt, tx.stg)]
          /\ deleted' = [deleted EXCEPT ![i] = Cardinality(StaleRows(tx.tgt, tx.stg))]
          /\ UNCHANGED <<inserted, stage, target, synced>>
       \/ DbFail(i, "reconcile")

\* conn.commit(): the transaction's rows become the committed tables.
Commit(i) ==
    /\ pc[i] = "commit"
    /\ \/ /\ DbStep(i, "committed")
          /\ target' = tx.tgt
          /\ stage' = tx.stg
          /\ UNCHANGED <<inserted, deleted, tx, synced>>
       \/ DbFail(i, "reconcile")

\* The connection's `with` block ends, sync_database and run_sync return.
CloseConn(i) ==
    /\ pc[i] = "committed"
    /\ pc' = [pc EXCEPT ![i] = "success"]
    /\ tx' = NoTx
    /\ synced' = [valid |-> TRUE, rows |-> tx.stg]
    /\ inserted' = [inserted EXCEPT ![i] = -1]
    /\ deleted' = [deleted EXCEPT ![i] = -1]
    /\ UNCHANGED <<status, arrived, http, fetch, err, stage, target>>
    /\ UNCHANGED <<cli, lk>>

\* ------------------------------------------------------------ specification
Handler(i) == RunCheck(i) \/ ThreadStart(i)

RunSync(i) ==
    \/ DownloadAndExtract(i) \/ WriteCsv(i) \/ Connect(i) \/ CreateStage(i)
    \/ TruncateStage(i) \/ LoadStage(i) \/ InsertNew(i) \/ DeleteStale(i)
    \/ Commit(i) \/ CloseConn(i)

RunUpdate(i) ==
    \/ BuildLoggerFails(i) \/ StartRun(i) \/ RunSync(i)
    \/ RecordSuccess(i) \/ RecordFailure(i) \/ Finally(i)

Next == \E i \in Reqs : Handler(i) \/ RunUpdate(i)

Spec == Init /\ [][Next]_vars

\* Threads are scheduled: a thread that can take a step eventually does.
\* Nothing obliges a client to send a request, or build_logger to fail.
ThreadStep(i) ==
    \/ ThreadStart(i) \/ StartRun(i) \/ RunSync(i)
    \/ RecordSuccess(i) \/ RecordFailure(i) \/ Finally(i)

FairSpec == Spec /\ \A i \in Reqs : WF_vars(ThreadStep(i))

\* The web application is not run.
WebOff ==
    /\ status = StatusInit
    /\ arrived = 0
    /\ pc = [i \in Reqs |-> "idle"]
    /\ http = None
    /\ fetch = [i \in Reqs |-> None]
    /\ err = [i \in Reqs |-> None]
    /\ inserted = [i \in Reqs |-> -1]
    /\ deleted = [i \in Reqs |-> -1]
    /\ target = {}
    /\ stage = {}
    /\ tx = NoTx
    /\ synced = [valid |-> FALSE, rows |-> {}]

\* ------------------------------- update_dne.py: main() and run_sync(), alone
\* run_sync is entered with args.keep_temp = keep against an archive.
CliStart(keep, files) ==
    [keep_temp |-> keep, archive |-> files, pc |-> "start", tmp |-> Removed,
     retained |-> {}, at |-> <<1, 1>>, line |-> <<>>, record |-> NoRecord,
     tsv |-> <<>>, record_count |-> 0, staged |-> {}]

\* ------------------------------------- parse_logradouro_line on its own
\* One call of parse_logradouro_line, for every line of Lines.
DecodeInit ==
    /\ WebOff
    /\ lk = LockOff
    /\ cli \in {[CliStart(FALSE, <<>>) EXCEPT !.pc = "line", !.line = text] :
                  text \in Lines}

ParseLine ==
    /\ cli.pc = "line"
    /\ cli' = [cli EXCEPT !.record = parse_logradouro_line(cli.line),
                          !.pc = "parsed"]
    /\ UNCHANGED <<webVars, lk>>

DecodeNext == ParseLine

DecodeSpec == DecodeInit /\ [][DecodeNext]_vars

\* ----------------------------------------------------- run_sync, step by step
\* The program is started from the command line, with or without
\* --keep-temp, against any archive of Archives.
CliInit ==
    /\ WebOff
    /\ lk = LockOff
    /\ cli \in {CliStart(keep, files) : keep \in BOOLEAN, files \in Archives}

\* An exception leaves the `with tempfile.TemporaryDirectory()` block: its
\* exit removes the directory with all it holds, and run_sync ends.
Raised(c) == [c EXCEPT !.pc = "raised", !.tmp = Removed]

\* `with tempfile.TemporaryDirectory() as tmp_dir`
EnterTemp ==
    /\ cli.pc = "start"
    /\ cli' = [cli EXCEPT !.pc = "download", !.tmp = TempDir({})]
    /\ UNCHANGED <<webVars, lk>>

\* The files download_and_extract leaves in the directory.
Extracted ==
    {"dne.zip", "DNE_GU_1.zip"}
      \cup {TxtNames[k] : k \in 1..Len(cli.archive)}

\* download_and_extract(args.dne_url, temp_path): it raises (urlretrieve
\* fails with only dne.zip begun, or with nothing) or returns the extracted
\* files.
Download ==
    /\ cli.pc = "download"
    /\ \/ cli' = [cli EXCEPT !.pc = "open", !.tmp = TempDir(Extracted)]
       \/ \E left \in {{}, {"dne.zip"}} :
            cli' = [cli EXCEPT !.pc = "fetchfailed", !.tmp = TempDir(left)]
    /\ UNCHANGED <<webVars, lk>>

\* download_and_extract raised: the exception leaves the `with` block.
FetchFails ==
    /\ cli.pc = "fetchfailed"
    /\ cli' = Raised(cli)
    /\ UNCHANGED <<webVars, lk>>

\* csv_path.open("w", ...): the file exists from here on, empty at first.
OpenCsv ==
    /\ cli.pc = "open"
    /\ cli' = [cli EXCEPT !.pc = "loop",
                          !.tmp = TempDir(@.names \cup {"dne_logradouros.tsv"})]
    /\ UNCHANGED <<webVars, lk>>

\* `if record:` in iter_logradouro_records: a DneRecord is true, None is not.
Yields(rec) == rec # NoRecord

\* Variant: the count is taken of the lines read.
CountedLines(count, rec) == count + 1

\* record_count += 1, in the body of the loop over the yielded records.
Counted(count, rec) == IF Yields(rec) THEN count + 1 ELSE count

\* The text written for what a line decoded to.
Written(rec) == IF Yields(rec) THEN writerow(RowOf(rec[1])) ELSE <<>>

\* One turn of `for line in handle`: the line is decoded and, when a record
\* is yielded, run_sync writes its row and counts it.
ReadLine ==
    /\ cli.pc = "loop"
    /\ cli.at[1] <= Len(cli.archive)
    /\ cli.at[2] <= Len(cli.archive[cli.at[1]])
    /\ LET text == LineTexts[cli.archive[cli.at[1]][cli.at[2]]]
           rec == parse_logradouro_line(text)
       IN cli' = [cli EXCEPT !.line = text,
                             !.record = rec,
                             !.tsv = @ \o Written(rec),
                             !.record_count = Counted(@, rec),
                             !.at = <<@[1], @[2] + 1>>]
    /\ UNCHANGED <<webVars, lk>>

\* A file is read to its end: `for logradouro_file in logradouro_files`
\* goes on to the next one.
NextFile ==
    /\ cli.pc = "loop"
    /\ cli.at[1] <= Len(cli.archive)
    /\ cli.at[2] > Len(cli.archive[cli.at[1]])
    /\ cli' = [cli EXCEPT !.at = <<@[1] + 1, 1>>]
    /\ UNCHANGED <<webVars, lk>>

\* Reading a file or writing the batch raises (an I/O error).
LoopFails ==
    /\ cli.pc = "loop"
    /\ cli.at[1] <= Len(cli.archive)
    /\ cli' = Raised(cli)
    /\ UNCHANGED <<webVars, lk>>

\* The last file is read: the batch is closed and the count is logged.
CloseCsv ==
    /\ cli.pc = "loop"
    /\ cli.at[1] > Len(cli.archive)
    /\ cli' = [cli EXCEPT !.pc = "sync"]
    /\ UNCHANGED <<webVars, lk>>

\* sync_database(csv_path, args, logger), the staging table being empty
\* after TRUNCATE: LOAD DATA reads the batch into it, and the call returns
\* after the commit, or a statement raises.
SyncDatabase ==
    /\ cli.pc = "sync"
    /\ \/ cli' = [cli EXCEPT !.pc = "synced",
                             !.staged = BulkLoad({}, LoadData(cli.tsv))]
       \/ cli' = Raised(cli)
    /\ UNCHANGED <<webVars, lk>>

\* `if args.keep_temp:` every item of the directory is moved to ./dne_tmp
\* with Path.replace, or the first replace raises (./dne_tmp lies on another
\* file system than the temporary directory).
KeepTemp ==
    /\ cli.pc = "synced"
    /\ cli.keep_temp
    /\ \/ cli' = [cli EXCEPT !.pc = "exit",
                             !.retained = @ \cup cli.tmp.names,
                             !.tmp = TempDir({})]
       \/ cli' = Raised(cli)
    /\ UNCHANGED <<webVars, lk>>

\* The `with` block ends: the directory is removed and run_sync returns.
ExitTemp ==
    /\ \/ cli.pc = "exit"
       \/ cli.pc = "synced" /\ ~cli.keep_temp
    /\ cli' = [cli EXCEPT !.pc = "done", !.tmp = Removed]
    /\ UNCHANGED <<webVars, lk>>

CliNext ==
    \/ EnterTemp \/ Download \/ FetchFails \/ OpenCsv \/ ReadLine
    \/ NextFile \/ LoopFails \/ CloseCsv \/ SyncDatabase \/ KeepTemp
    \/ ExitTemp

CliSpec == CliInit /\ [][CliNext]_vars

\* ------------------------------------ app.py, status_lock step by step
\* The handlers and run_update again, with every `with status_lock:` block
\* in two steps: the lock is taken (the thread waits while another holds
\* it), then the block's body runs and the lock is released.  run_sync is
\* one step that returns or raises.  A slot serves a POST /run with the
\* thread it starts, or a GET /status.
LockInit ==
    /\ WebOff
    /\ cli = CliOff
    /\ lk = [holder |-> 0, pc |-> [i \in Reqs |-> "idle"]]

\* Where a thread waits for status_lock, and where it is once it holds it.
LockedOf ==
    [run_wait |-> "run_locked", status_wait |-> "status_locked",
     start_wait |-> "start_locked", ok_wait |-> "ok_locked",
     fail_wait |-> "fail_locked", end_wait |-> "end_locked"]

Waiting == DOMAIN LockedOf

LockedPositions == {LockedOf[w] : w \in Waiting}

\* Variant: a block that ends without releasing the lock.
ReleasedNever(i) == i

\* The lock's holder after the `with status_lock:` block of thread i ended.
Released(i) == 0

\* Thread i goes on to next; the lock is left as it is.
LockStep(i, next) ==
    /\ lk' = [lk EXCEPT !.pc[i] = next]
    /\ UNCHANGED <<pc, fetch, err, inserted, deleted, stage, target, tx,
                   synced, cli>>

\* Thread i ends a `with status_lock:` block and goes on to next.
Release(i, next) ==
    /\ lk' = [holder |-> Released(i), pc |-> [lk.pc EXCEPT ![i] = next]]
    /\ UNCHANGED <<pc, fetch, err, inserted, deleted, stage, target, tx,
                   synced, cli>>

\* A POST /run request arrives: run() is entered.
PostRun(i) ==
    /\ lk.pc[i] = "idle"
    /\ arrived < MaxRequests
    /\ arrived' = arrived + 1
    /\ LockStep(i, "run_wait")
    /\ UNCHANGED <<status, http>>

\* A GET /status request arrives: get_status() is entered.
GetStatus(i) ==
    /\ lk.pc[i] = "idle"
    /\ arrived < MaxRequests
    /\ arrived' = arrived + 1
    /\ LockStep(i, "status_wait")
    /\ UNCHANGED <<status, http>>

\* status_lock.acquire(), at the head of a `with status_lock:` block.
Acquire(i) ==
    /\ lk.pc[i] \in Waiting
    /\ lk.holder = 0
    /\ lk' = [holder |-> i, pc |-> [lk.pc EXCEPT ![i] = LockedOf[lk.pc[i]]]]
    /\ UNCHANGED <<webVars, cli>>

\* run(): `if status["running"]: return 409`, and the block ends.
CheckRunning(i) ==
    /\ lk.pc[i] = "run_locked"
    /\ IF status.running
         THEN Release(i, "idle") /\ http' = "409 running"
         ELSE Release(i, "passed") /\ http' = http
    /\ UNCHANGED <<status, arrived>>

\* get_status(): `return jsonify(status)`, and the block ends.
ReadStatus(i) ==
    /\ lk.pc[i] = "status_locked"
    /\ http' = "200 status"
    /\ Release(i, "idle")
    /\ UNCHANGED <<status, arrived>>

\* run(): the thread is started and "started" is answered.
SpawnThread(i) ==
    /\ lk.pc[i] = "passed"
    /\ http' = "200 started"
    /\ LockStep(i, "spawned")
    /\ UNCHANGED <<status, arrived>>

\* run_update: build_logger() returns, or raises and the thread ends.
BuildLogger(i) ==
    /\ lk.pc[i] = "spawned"
    /\ \/ LockStep(i, "start_wait")
       \/ LockStep(i, "idle")
    /\ UNCHANGED <<status, arrived, http>>

\* The body of run_update's first block.
WriteStart(i) ==
    /\ lk.pc[i] = "start_locked"
    /\ status' = StatusAtStart(status)
    /\ Release(i, "run_sync")
    /\ UNCHANGED <<arrived, http>>

\* update_dne.run_sync(args, logger): fetch, decode, staging and
\* reconciliation; it returns or raises.
RunSyncEnds(i) ==
    /\ lk.pc[i] = "run_sync"
    /\ \/ LockStep(i, "ok_wait")
       \/ LockStep(i, "fail_wait")
    /\ UNCHANGED <<status, arrived, http>>

\* status["last_result"] = "success"
WriteSuccess(i) ==
    /\ lk.pc[i] = "ok_locked"
    /\ status' = [status EXCEPT !.last_result = "success"]
    /\ Release(i, "end_wait")
    /\ UNCHANGED <<arrived, http>>

\* status["last_result"] = "failed"; status["last_error"] = str(exc)
WriteFailure(i) ==
    /\ lk.pc[i] = "fail_locked"
    /\ status' = [status EXCEPT !.last_result = "failed",
                                !.last_error = "error"]
    /\ Release(i, "end_wait")
    /\ UNCHANGED <<arrived, http>>

\* finally: status["running"] = False
WriteEnd(i) ==
    /\ lk.pc[i] = "end_locked"
    /\ status' = StatusAtEnd(status)
    /\ Release(i, "idle")
    /\ UNCHANGED <<arrived, http>>

LockNext ==
    \E i \in Reqs :
      \/ PostRun(i) \/ GetStatus(i) \/ Acquire(i) \/ CheckRunning(i)
      \/ ReadStatus(i) \/ SpawnThread(i) \/ BuildLogger(i) \/ WriteStart(i)
      \/ RunSyncEnds(i) \/ WriteSuccess(i) \/ WriteFailure(i) \/ WriteEnd(i)

LockSpec == LockInit /\ [][LockNext]_vars

\* =================================================================== claims
\* Where a thread is while run_sync executes.
InRunSync ==
    {"fetch", "csv", "connect", "create", "truncate", "load", "insert",
     "delete", "commit", "committed"}

\* Where a thread is between its first and its last write of status.
InRun == InRunSync \cup {"success", "except"}

\* C1: a reconciliation that completes leaves the target's key set equal to
\* the staging key set S, and reports |S - T| inserts and |T - S| deletes,
\* T being the target's key set when the transaction began.  Checked when
\* both steps are done (the transaction's view) and once committed (the
\* committed tables).
C1_Convergence ==
    \A i \in Reqs :
      pc[i] \in {"commit", "committed"} =>
        /\ tx.owner = i
        /\ Keys(tx.tgt) = Keys(tx.stg)
        /\ inserted[i] = Cardinality(Keys(tx.stg) \ Keys(tx.before))
        /\ deleted[i] = Cardinality(Keys(tx.before) \ Keys(tx.stg))
        /\ pc[i] = "committed" => (stage = tx.stg /\ Keys(target) = Keys(stage))

C1_Witness ==
    \E i \in Reqs : pc[i] = "committed" /\ inserted[i] > 0 /\ deleted[i] > 0

\* C2: at most one background run executes run_sync at any time.
C2_SingleRun == Cardinality({i \in Reqs : pc[i] \in InRunSync}) <= 1

\* C3: when the insert step, the delete step or the commit raises, the
\* committed target afterwards is what it was when the transaction began, and
\* no transaction of the run stays open.
C3_Rollback ==
    [][\A i \in Reqs :
         (pc[i] \in {"insert", "delete", "commit"} /\ pc'[i] = "except") =>
           (tx.owner = i /\ target' = tx.before /\ tx'.owner = 0)]_vars

C3_Witness ==
    \E i \in Reqs :
      pc[i] = "except" /\ err[i] = "reconcile" /\ target # {}

\* C4: a run whose fetch failed (network error, no inner archive, no
\* *_LOGRADOUROS.TXT entry) goes to the except block: it never truncates or
\* loads the staging table, never commits and never succeeds.
FetchFailures == {"neterr", "noinner", "nofile"}

C4_FetchFailureFatal ==
    \A i \in Reqs :
      fetch[i] \in FetchFailures =>
        pc[i] \notin {"load", "insert", "delete", "commit", "committed", "success"}

\* C5: a failing staging step (create, truncate, load) aborts the run with
\* the target unchanged, and the committed target changes only in the step
\* that commits a transaction, to that transaction's complete result.
C5_TargetOnlyByCommit ==
    [][/\ \A i \in Reqs :
            (pc[i] \in {"create", "truncate", "load"} /\ pc'[i] = "except")
              => target' = target
       /\ target' # target =>
            \E i \in Reqs :
              /\ pc[i] = "commit" /\ pc'[i] = "committed"
              /\ target' = tx.tgt
              /\ Keys(target') = Keys(tx.stg)]_vars

C5_Witness ==
    \E i \in Reqs :
      pc[i] = "except" /\ err[i] = "staging" /\ target # {}

\* C6: a target row whose key is also in staging keeps all its fields through
\* reconciliation, also when staging holds other values for that key.
RowsOf(table, k) == {r \in table : r.cep = k}

C6_NonOverwrite ==
    \A i \in Reqs :
      pc[i] \in {"commit", "committed"} =>
        \A k \in Keys(tx.before) \cap Keys(tx.stg) :
          /\ RowsOf(tx.tgt, k) = RowsOf(tx.before, k)
          /\ pc[i] = "committed" => RowsOf(target, k) = RowsOf(tx.before, k)

C6_Witness ==
    \E i \in Reqs :
      /\ pc[i] = "committed"
      /\ \E k \in Keys(tx.before) \cap Keys(tx.stg) :
           RowsOf(tx.stg, k) # RowsOf(tx.before, k)

\* C7: a run that loads the same staging rows as the last committed run
\* reports zero inserts and zero deletes and leaves the target as it was.
C7_Idempotent ==
    \A i \in Reqs :
      (pc[i] \in {"commit", "committed"} /\ synced.valid /\ tx.stg = synced.rows) =>
        /\ inserted[i] = 0
        /\ deleted[i] = 0
        /\ tx.tgt = tx.before
        /\ target = tx.before

C7_Witness ==
    \E i \in Reqs :
      /\ pc[i] = "committed"
      /\ synced.valid /\ tx.stg = synced.rows
      /\ target # {}

\* C8: a request that arrives while status.running holds is answered
\* 409 "running" and changes nothing else: no thread, no status change, no
\* change of the staging or the target table.
C8_RejectWhileRunning ==
    [][(arrived' = arrived + 1 /\ status.running) =>
         /\ pc' = pc
         /\ status' = status
         /\ stage' = stage /\ target' = target /\ tx' = tx
         /\ http' = "409 running"]_vars

C8_Witness == http = "409 running" /\ status.running

\* C9: every run that has set status to running leaves run_sync only into
\* the write of its result (success or failed), and, threads being scheduled,
\* ends with status.running set to false, whichever step raised.
C9_NoRunStuck ==
    /\ [][\A i \in Reqs :
            (pc[i] \in InRun /\ pc'[i] \notin InRun) =>
              (pc'[i] = "finally" /\ status'.last_result \in {"success", "failed"})]_vars
    /\ \A i \in Reqs :
         (pc[i] \in InRun \cup {"finally"}) ~> (pc[i] = "idle" /\ ~status.running)

C9_Witness ==
    \E i \in Reqs :
      pc[i] = "finally" /\ status.last_result = "failed" /\ status.last_error = "reconcile"

\* C10: status is reset at run start, records success exactly for a run
\* whose steps all completed and failed with the message otherwise, and
\* last_result and last_error then change only when a run starts.
C10_StatusFaithful ==
    [][/\ \A i \in Reqs :
            /\ (pc[i] = "spawned" /\ pc'[i] = "fetch") =>
                 /\ status'.running /\ status'.last_run # 0
                 /\ status'.last_result = None /\ status'.last_error = None
            /\ (pc[i] = "success" /\ pc'[i] = "finally") =>
                 status'.last_result = "success"
            /\ (pc[i] = "except" /\ pc'[i] = "finally") =>
                 status'.last_result = "failed" /\ status'.last_error = err[i]
       /\ (/\ status.last_result # None
           /\ \/ status'.last_result # status.last_result
              \/ status'.last_error # status.last_error)
            => \E j \in Reqs : pc[j] = "spawned" /\ pc'[j] = "fetch"]_vars

\* C11: the target's postcodes stay unique, and a run that committed, whether
\* or not its batch held a postcode on several lines, leaves in the target
\* exactly the postcodes of its batch: each of them once and no other.
C11_SnapshotExactlyOnce ==
    /\ UniqueKey(target)
    /\ \A i \in Reqs :
         pc[i] = "committed" =>
           /\ tx.snap \subseteq Keys(target)
           /\ Keys(target) \subseteq tx.snap

\* The postcode field of the line, offsets 518 to 526, holds nothing but
\* whitespace (or the line ends before it).
PostcodeBlank ==
    \A n \in 519..526 : n <= Len(cli.line) => cli.line[n] \in Whitespace

\* C12: parse_logradouro_line returns None exactly for the empty line, the
\* line whose first character is not "D" and the line whose postcode field
\* is blank; every other line gives a record, whatever its other fields hold.
C12_DecodeRejects ==
    cli.pc = "parsed" =>
      (cli.record = NoRecord <=>
         (cli.line = <<>> \/ cli.line[1] # "D" \/ PostcodeBlank))

C12_Witness ==
    /\ cli.pc = "parsed"
    /\ cli.record = NoRecord
    /\ Len(cli.line) >= 526 /\ cli.line[1] = "D"

\* C13: every record has a postcode of exactly 8 characters, and a line of
\* fewer than 526 characters gives no record.
C13_PostcodeEightChars ==
    cli.pc = "parsed" =>
      /\ cli.record # NoRecord => Len(cli.record[1].cep) = 8
      /\ Len(cli.line) < 526 => cli.record = NoRecord

\* A str with no whitespace at its ends and, inside, no whitespace but
\* single blanks.
IsNormalized(value) ==
    /\ value # <<>> => (value[1] \notin Whitespace
                       /\ value[Len(value)] \notin Whitespace)
    /\ \A n \in 1..Len(value) :
         value[n] \in Whitespace =>
           (value[n] = " " /\ n < Len(value) /\ value[n + 1] \notin Whitespace)

\* C14: the five fields of every record are whitespace-normalized, and
\* normalizing one again returns it unchanged.
C14_FieldsNormalized ==
    (cli.pc = "parsed" /\ cli.record # NoRecord) =>
      \A value \in {cli.record[1].cep, cli.record[1].street,
                     cli.record[1].city, cli.record[1].region,
                     cli.record[1].neighborhood} :
        IsNormalized(value) /\ normalize_spaces(value) = value

\* The reference normalization: the ends trimmed, every run of whitespace
\* inside replaced by one blank.
RECURSIVE Collapse(_)
Collapse(value) ==
    IF value = <<>> THEN <<>>
    ELSE IF Head(value) \notin Whitespace
      THEN <<Head(value)>> \o Collapse(Tail(value))
    ELSE IF Len(value) > 1 /\ value[2] \in Whitespace
      THEN Collapse(Tail(value))
      ELSE <<" ">> \o Collapse(Tail(value))

Reference(from, to) == Collapse(Strip(Slice(cli.line, from, to)))

\* C15: for an accepted line, neighborhood is the normalized initial field
\* when that is not empty and the normalized final field otherwise; street
\* is the normalized type, preposition, title and name in this order, the
\* empty ones left out, joined by single blanks; city and region are the
\* normalized substrings at their offsets.
C15_ReferenceResolution ==
    (cli.pc = "parsed" /\ cli.record # NoRecord) =>
      /\ cli.record[1].neighborhood =
           (IF Reference(102, 174) # <<>>
              THEN Reference(102, 174)
              ELSE Reference(187, 259))
      /\ cli.record[1].street =
           Join(<<" ">>,
                SelectSeq(<<Reference(259, 285), Reference(285, 288),
                            Reference(288, 360), Reference(374, 446)>>,
                          IsNonEmpty))
      /\ cli.record[1].city = Reference(17, 89)
      /\ cli.record[1].region = Reference(1, 3)

\* An accepted line with an empty initial neighborhood, an empty street
\* subfield and runs of whitespace inside its fields.
C15_Witness ==
    /\ cli.pc = "parsed" /\ cli.record # NoRecord
    /\ Reference(102, 174) = <<>> /\ cli.record[1].neighborhood # <<>>
    /\ Reference(285, 288) = <<>> /\ Reference(259, 285) # <<>>
    /\ Len(Strip(Slice(cli.line, 17, 89))) > Len(cli.record[1].city)

\* C16: when run_sync has ended, by return or by exception, the temporary
\* directory is removed; and with --keep-temp no file is removed with it:
\* what the directory held has been moved to ./dne_tmp.
C16_TempReleased ==
    /\ [](cli.pc \in {"done", "raised"} => ~cli.tmp.exists)
    /\ [][(cli.keep_temp /\ cli.tmp.exists /\ ~cli'.tmp.exists) =>
            cli.tmp.names \subseteq cli'.retained]_vars

\* The lines of the files, in file order and then line order.
RECURSIVE Flatten(_)
Flatten(files) ==
    IF files = <<>> THEN <<>> ELSE Head(files) \o Flatten(Tail(files))

\* The records of the lines that decode to one, in the lines' order.
RECURSIVE Accepted(_)
Accepted(names) ==
    IF names = <<>> THEN <<>>
    ELSE parse_logradouro_line(LineTexts[Head(names)]) \o Accepted(Tail(names))

RECURSIVE Serialized(_)
Serialized(records) ==
    IF records = <<>> THEN <<>>
    ELSE writerow(RowOf(Head(records))) \o Serialized(Tail(records))

\* C17: when the loop has ended the batch is the rows of the records that
\* the lines of all files decode to, in file order and line order, rejected
\* lines adding nothing, and record_count is the number of these records.
C17_SnapshotInOrder ==
    cli.pc = "sync" =>
      LET records == Accepted(Flatten(cli.archive))
      IN /\ cli.tsv = Serialized(records)
         /\ cli.record_count = Len(records)

\* Two files, a rejected line before an accepted one, two records.
C17_Witness ==
    /\ cli.pc = "sync"
    /\ Len(cli.archive) = 2
    /\ cli.archive[1] # <<>> /\ cli.archive[1][1] = "R"
    /\ cli.archive[2] # <<>>
    /\ cli.record_count = 2
    /\ Len(Flatten(cli.archive)) > 2

\* C18: status is read and written only by the thread that holds
\* status_lock, in a step of one of the `with status_lock:` blocks; the lock
\* is held by a thread only while it is in such a block, never while it
\* executes run_sync, so a waiting status query gets the lock while a run
\* goes on.
C18_StatusUnderLock ==
    /\ [](\A i \in Reqs : lk.pc[i] \in LockedPositions <=> lk.holder = i)
    /\ [](\A i \in Reqs : lk.pc[i] = "run_sync" => lk.holder # i)
    /\ [][status' # status =>
            \E i \in Reqs :
              /\ lk.holder = i
              /\ lk.pc[i] \in LockedPositions
              /\ lk'.pc[i] # lk.pc[i]]_vars

\* A status query holds the lock and reads status while a run executes
\* run_sync.
C18_Witness ==
    \E i, j \in Reqs :
      /\ lk.pc[i] = "run_sync" /\ status.running
      /\ lk.pc[j] = "status_locked" /\ lk.holder = j

\* C19: the rows LOAD DATA puts in the staging table have the five field
\* values of the records written, exactly.
C19_RoundTrip ==
    cli.pc = "synced" =>
      cli.staged = BulkLoad({}, Accepted(Flatten(cli.archive)))

\* C20: in every state of status, when running is false and last_run is
\* set, last_result is "success" or "failed"; and last_error is set exactly
\* when last_result is "failed".
C20_StatusConsistent ==
    /\ (~status.running /\ status.last_run # 0) =>
         status.last_result \in {"success", "failed"}
    /\ status.last_error # None <=> status.last_result = "failed"

====
